---- MODULE Spec2Model ----
(***************************************************************************)
(* Model of static/script.js: the YouTubeDownloader page controller.       *)
(*                                                                         *)
(* The controller is single-threaded and event driven.  Every action below *)
(* is one run-to-completion piece of JavaScript: an event handler up to    *)
(* its first await, or the continuation that runs when an awaited fetch    *)
(* settles, or one timer / animation-frame callback.  Requests that have   *)
(* been issued and have not settled yet are the messages in flight.        *)
(***************************************************************************)
EXTENDS Integers, Sequences, FiniteSets, TLC

\* ------------------------------------------------------------------ bounds
\* Task identifiers the backend hands out are 1..MaxTasks.
MaxTasks == 1
\* Completions that may be pending at the same time: status requests
\* awaiting their response and animate closures awaiting their next frame.
MaxPending == 2

\* ------------------------------------------------------- program constants
\* Math.min(data.progress || 0, 100)
ProgressCap == 100

\* null / undefined / an absent handle: every falsy value of the fields
\* currentTaskId and pollInterval.
Null == 0

\* ------------------------------------------------------------- the strings
ValidationMsg == "Please enter a valid YouTube URL"
ExpiredMsg == "Download task expired"
DownloadFailedMsg == "Download failed"
DownloadReadyText == "Download ready"
PreparingText == "Preparing..."
PollingErrorLine == "Polling error:"
\* error.message of the TypeError a rejected fetch() throws
NetworkErrorMsg == "Failed to fetch"
\* error.message of the SyntaxError response.json() throws on a body that
\* is not JSON
JsonErrorMsg == "Unexpected token < in JSON at position 0"

\* ------------------------------------------------------------ isValidYouTubeUrl
\* \w of a JavaScript regular expression without the u/i flags.
WordChars ==
    { "a","b","c","d","e","f","g","h","i","j","k","l","m","n","o","p","q",
      "r","s","t","u","v","w","x","y","z",
      "A","B","C","D","E","F","G","H","I","J","K","L","M","N","O","P","Q",
      "R","S","T","U","V","W","X","Y","Z",
      "0","1","2","3","4","5","6","7","8","9","_" }

WhiteSpace == { " ", "\t", "\n" }

CharAt(s, i) == SubSeq(s, i, i)

\* !url.trim(): url is empty once leading and trailing white space is cut,
\* i.e. every character of it is white space.
TrimIsEmpty(url) == \A i \in 1..Len(url) : CharAt(url, i) \in WhiteSpace

\* The literal lit occurs in s at position i.
LitAt(s, i, lit) ==
    /\ i + Len(lit) - 1 <= Len(s)
    /\ SubSeq(s, i, i + Len(lit) - 1) = lit

\* One step of a regular expression: from the set P of positions reached so
\* far, the positions reached after the literal lit, or after skipping it
\* when it is optional (the ? operator).
Step(s, P, lit, optional) ==
    { i + Len(lit) : i \in { j \in P : LitAt(s, j, lit) } }
        \cup (IF optional THEN P ELSE {})

\* ^https?:\/\/
SchemeEnd(s) == Step(s, Step(s, Step(s, {1}, "http", FALSE), "s", TRUE), "://", FALSE)

\* [\w-]+ at one of the positions P (the patterns are not anchored at the
\* end, so one character of the class is enough).
IdAt(s, P) == \E i \in P : i <= Len(s) /\ CharAt(s, i) \in WordChars \cup {"-"}

\* /^https?:\/\/(www\.)?youtube\.com\/watch\?v=[\w-]+/
WatchPattern(s) ==
    IdAt(s, Step(s, Step(s, SchemeEnd(s), "www.", TRUE), "youtube.com/watch?v=", FALSE))

\* /^https?:\/\/youtu\.be\/[\w-]+/
ShortLinkPattern(s) == IdAt(s, Step(s, SchemeEnd(s), "youtu.be/", FALSE))

\* /^https?:\/\/(www\.)?youtube\.com\/shorts\/[\w-]+/
ShortsPattern(s) ==
    IdAt(s, Step(s, Step(s, SchemeEnd(s), "www.", TRUE), "youtube.com/shorts/", FALSE))

\* /^https?:\/\/(www\.)?youtube\.com\/embed\/[\w-]+/
EmbedPattern(s) ==
    IdAt(s, Step(s, Step(s, SchemeEnd(s), "www.", TRUE), "youtube.com/embed/", FALSE))

isValidYouTubeUrl(url) ==
    IF url = "" \/ TrimIsEmpty(url)
    THEN FALSE
    ELSE \/ WatchPattern(url)
         \/ ShortLinkPattern(url)
         \/ ShortsPattern(url)
         \/ EmbedPattern(url)

\* The values of the url field the form is submitted with.
Urls ==
    { "https://youtu.be/abc123",
      "http://www.youtube.com/watch?v=a-b_c",
      "  ",
      "https://youtu.be/",
      "https://vimeo.com/123" }

\* isValidYouTubeUrl on each of these values, evaluated once.
UrlIsValid == [ url \in Urls |-> isValidYouTubeUrl(url) ]

\* ------------------------------------------------------------------- state
VARIABLES
    this,       \* the fields of the YouTubeDownloader object:
                \*   lastPercent, currentTaskId, pollInterval
    dom,        \* what the page elements the object holds display
    timers,     \* the handles of the interval timers that are live
    anims,      \* the animate closures waiting for the next animation frame
    posts,      \* number of POST /api/download requests awaiting a response
    fetches,    \* fetches[k]: number of GET /api/status/k awaiting a response
    nextTaskId, \* the task identifier the backend assigns next
    console,    \* the distinct lines console.error has logged, each the
                \* pair of its label and the message of the error
    handled     \* the tasks for which the poll callback has switched the
                \* page to a terminal view (history)

vars == << this, dom, timers, anims, posts, fetches, nextTaskId, console, handled >>

TaskIds == 1..MaxTasks

\* The part of the state the methods of the object read and write.
World == [ this |-> this, dom |-> dom, timers |-> timers, anims |-> anims ]

Becomes(w) ==
    /\ this' = w.this
    /\ dom' = w.dom
    /\ timers' = w.timers
    /\ anims' = w.anims

\* -------------------------------------------------------------- formatting
\* formatSpeed: the result is the pair << tenths, unit >>, standing for the
\* text (tenths / 10).toFixed(1) + ' ' + units[unit].
SpeedUnits == << "B/s", "KB/s", "MB/s", "GB/s" >>

RECURSIVE ScaleSpeed(_, _, _)
\* the while loop: speed = num / den
ScaleSpeed(num, den, unitIndex) ==
    IF num >= 1024 * den /\ unitIndex < Len(SpeedUnits)
    THEN ScaleSpeed(num, den * 1024, unitIndex + 1)
    ELSE << (20 * num + den) \div (2 * den), SpeedUnits[unitIndex] >>

formatSpeed(bytesPerSecond) ==
    IF bytesPerSecond = 0 THEN << 0, "B/s" >> ELSE ScaleSpeed(bytesPerSecond, 1, 1)

\* formatTime, for whole seconds: << "s", n >> is 'ns', << "m", m, s >> is
\* 'mm ss' and << "h", h, m >> is 'hh mm'.
formatTime(seconds) ==
    IF seconds = 0 \/ seconds < 0 THEN << "s", 0 >>
    ELSE IF seconds < 60 THEN << "s", seconds >>
    ELSE IF seconds < 3600 THEN << "m", seconds \div 60, seconds % 60 >>
    ELSE << "h", seconds \div 3600, (seconds % 3600) \div 60 >>

\* ------------------------------------------------------- the response bodies
\* A parsed JSON body is a record; a field the body does not carry is
\* absent from its domain.  data.f || dflt:
Has(data, f) == f \in DOMAIN data
StrOr(data, f, dflt) == IF Has(data, f) /\ data[f] # "" THEN data[f] ELSE dflt
NumOr(data, f, dflt) == IF Has(data, f) /\ data[f] # 0 THEN data[f] ELSE dflt

\* --------------------------------------------------------------- the views
hideAllContainers(w) ==
    [w EXCEPT !.dom.progressContainer = "none",
              !.dom.errorContainer = "none",
              !.dom.resultContainer = "none"]

showError(w, message) ==
    [hideAllContainers(w) EXCEPT !.dom.errorContainer = "flex",
                                 !.dom.errorMessage = message]

showProgress(w) ==
    [hideAllContainers(w) EXCEPT !.dom.progressContainer = "block"]

showResult(w, data) ==
    [hideAllContainers(w) EXCEPT
        !.dom.resultContainer = "block",
        !.dom.resultFilename = StrOr(data, "filename", DownloadReadyText),
        !.dom.downloadHref = w.this.currentTaskId]

setLoadingState(w, loading) ==
    [w EXCEPT !.dom.submitDisabled = loading]

\* handleDownload: the task whose file a click on the download button
\* requests (window.location.href = `/download/${currentTaskId}`), Null
\* when the click requests none.
handleDownload(w) ==
    IF w.this.currentTaskId # Null THEN w.this.currentTaskId ELSE Null

\* ------------------------------------------------------------------ polling
\* stopPolling that clears the timer and keeps the handle in pollInterval.
stopPollingKeepsHandle(w) ==
    IF w.this.pollInterval # Null
    THEN [w EXCEPT !.timers = w.timers \ {w.this.pollInterval}]
    ELSE w

stopPolling(w) ==
    IF w.this.pollInterval # Null
    THEN [w EXCEPT !.timers = w.timers \ {w.this.pollInterval},
                   !.this.pollInterval = Null]
    ELSE w

\* The handle setInterval returns: one that is neither live nor the one
\* still stored in pollInterval.
NewTimer(w) ==
    CHOOSE h \in 1..(Cardinality(w.timers) + 2) :
        /\ h \notin w.timers \cup {w.this.pollInterval}
        /\ \A g \in 1..(h - 1) : g \in w.timers \cup {w.this.pollInterval}

\* startPolling without its if (this.pollInterval) clearInterval(...).
startPollingNoClear(w) ==
    [w EXCEPT !.timers = w.timers \cup {NewTimer(w)},
              !.this.pollInterval = NewTimer(w)]

startPolling(w) ==
    LET cleared == IF w.this.pollInterval # Null
                   THEN w.timers \ {w.this.pollInterval}
                   ELSE w.timers
        h == NewTimer(w)
    IN  [w EXCEPT !.timers = cleared \cup {h},
                  !.this.pollInterval = h]

\* ----------------------------------------------------------------- progress
\* Math.round of num / den, den > 0: the nearest integer, halves upwards.
Round(num, den) == (2 * num + den) \div (2 * den)

\* An animation frame is sampled at elapsed / duration = n / FrameSteps.
FrameSteps == 1

\* currentPercent of the frame at n / FrameSteps:
\*   easeOut = 1 - (1 - n/FrameSteps)^3
FramePercent(startPercent, targetPercent, n) ==
    LET den == FrameSteps * FrameSteps * FrameSteps
        rest == (FrameSteps - n) * (FrameSteps - n) * (FrameSteps - n)
    IN  Round(startPercent * den + (targetPercent - startPercent) * (den - rest), den)

animatePercentage(w, targetPercent) ==
    [w EXCEPT !.anims = Append(w.anims,
        [ startPercent |-> w.this.lastPercent,
          targetPercent |-> targetPercent ])]

Min(a, b) == IF a < b THEN a ELSE b

statusLabel(data) ==
    LET statusText == StrOr(data, "status", "processing")
    IN  IF statusText = "downloading" THEN "Downloading..."
        ELSE IF statusText = "processing" THEN "Processing..."
        ELSE statusText

infoLine(data) ==
    IF Has(data, "speed") /\ data.speed # 0 /\ data.speed > 0
    THEN IF Has(data, "eta") /\ data.eta # 0
         THEN << formatSpeed(data.speed), formatTime(data.eta) >>
         ELSE << formatSpeed(data.speed) >>
    ELSE << >>

\* element.style.width = percent + '%': the style keeps the value it had when
\* the new one is no valid width, and a negative percentage is none.
setWidth(width, percent) == IF percent < 0 THEN width ELSE percent

updateProgress(w, data) ==
    LET progress == Min(NumOr(data, "progress", 0), ProgressCap)
    IN  [animatePercentage(w, progress) EXCEPT
            !.dom.progressFill = setWidth(w.dom.progressFill, progress),
            !.dom.progressStatus = statusLabel(data),
            !.dom.progressInfo = infoLine(data)]

resetUI(w) ==
    stopPolling(
        [hideAllContainers(w) EXCEPT
            !.dom.progressFill = 0,
            !.dom.progressStatus = PreparingText,
            !.dom.progressPercent = 0,
            !.dom.progressInfo = << >>,
            !.this.lastPercent = 0,
            !.this.currentTaskId = Null])

\* ---------------------------------------------------------- animation frames
\* The animate closure a, called with a time stamp at n / FrameSteps of its
\* duration.  It writes the percentage; on its last frame it records the
\* target as lastPercent, otherwise it asks for another frame.
animate(w, a, n) ==
    LET currentPercent == FramePercent(a.startPercent, a.targetPercent, Min(n, FrameSteps))
        written == [w EXCEPT !.dom.progressPercent = currentPercent]
    IN  IF n < FrameSteps
        THEN [written EXCEPT !.anims = Append(written.anims, a)]
        ELSE [written EXCEPT !.this.lastPercent = a.targetPercent]

RECURSIVE RunCallbacks(_, _, _, _)
\* One animation frame: the callbacks queued before it run in the order they
\* were queued; what they queue runs in the next frame.
RunCallbacks(w, queue, ns, i) ==
    IF i > Len(queue) THEN w
    ELSE RunCallbacks(animate(w, queue[i], ns[i]), queue, ns, i + 1)

\* The elapsed times one frame can hand to the queued closures: a closure
\* created earlier has run for at least as long as one created later.
FrameTimes(queue) ==
    { ns \in [1..Len(queue) -> 0..FrameSteps] :
        \A i, j \in 1..Len(queue) : i < j => ns[i] >= ns[j] }

\* ------------------------------------------------------------------ actions
InFlight == LET RECURSIVE Sum(_)
                Sum(k) == IF k = 0 THEN 0 ELSE fetches[k] + Sum(k - 1)
            IN  Sum(MaxTasks)

\* handleSubmit with the request issued before the URL is validated.
handleSubmitPostFirst(url) ==
    /\ ~dom.submitDisabled
    /\ posts' = posts + 1
    /\ IF ~UrlIsValid[url]
       THEN Becomes(showError(World, ValidationMsg))
       ELSE Becomes(setLoadingState(resetUI(World), TRUE))
    /\ UNCHANGED << fetches, nextTaskId, console, handled >>

\* handleSubmit up to its first await.  The submit event reaches it only
\* while the submit button is enabled: setLoadingState(true) sets
\* submitBtn.disabled, and the browser does not submit a form through a
\* disabled submit button.  After MaxTasks identifiers the backend answers
\* no further submission with a task_id (see handleSubmitOk).
handleSubmit(url) ==
    /\ ~dom.submitDisabled
    /\ IF ~UrlIsValid[url]
       THEN /\ Becomes(showError(World, ValidationMsg))
            /\ UNCHANGED posts
       ELSE /\ Becomes(setLoadingState(resetUI(World), TRUE))
            /\ posts' = posts + 1
    /\ UNCHANGED << fetches, nextTaskId, console, handled >>

\* A catch block that shows the error and leaves the button in its loading
\* state.
submitFailedKeepsLoading(w, message) == showError(w, message)

\* catch (error) of handleSubmit
submitFailed(w, message) == setLoadingState(showError(w, message), FALSE)

\* fetch('/api/download') rejects: no response.
handleSubmitRejected ==
    /\ posts > 0
    /\ posts' = posts - 1
    /\ Becomes(submitFailed(World, NetworkErrorMsg))
    /\ UNCHANGED << fetches, nextTaskId, console, handled >>

\* A response whose body is not JSON: response.json() rejects.
handleSubmitNotJson ==
    /\ posts > 0
    /\ posts' = posts - 1
    /\ Becomes(submitFailed(World, JsonErrorMsg))
    /\ UNCHANGED << fetches, nextTaskId, console, handled >>

\* The bodies of a response that is not ok.
ErrorBodies ==
    { [message |-> "Video unavailable", error |-> "bad_request"],
      [error |-> "Video unavailable"],
      [detail |-> "Not Found"] }

handleSubmitNotOk(data) ==
    /\ posts > 0
    /\ posts' = posts - 1
    /\ Becomes(submitFailed(World,
            StrOr(data, "message", StrOr(data, "error", DownloadFailedMsg))))
    /\ UNCHANGED << fetches, nextTaskId, console, handled >>

\* The rest of handleSubmit after an ok response with the JSON body data.
submitSucceeded(w, data) ==
    startPolling(showProgress(
        [w EXCEPT !.this.currentTaskId = NumOr(data, "task_id", Null)]))

\* An ok response that carries the identifier of the task just created.
handleSubmitOk ==
    /\ posts > 0
    /\ nextTaskId <= MaxTasks
    /\ posts' = posts - 1
    /\ nextTaskId' = nextTaskId + 1
    /\ Becomes(submitSucceeded(World, [task_id |-> nextTaskId]))
    /\ UNCHANGED << fetches, console, handled >>

\* An ok response whose body has no task_id.
handleSubmitOkNoTaskId ==
    /\ posts > 0
    /\ posts' = posts - 1
    /\ Becomes(submitSucceeded(World, [status |-> "queued"]))
    /\ UNCHANGED << fetches, nextTaskId, console, handled >>

\* The interval callback of timer h up to its first await.
pollTick(h) ==
    /\ h \in timers
    /\ IF this.currentTaskId = Null
       THEN /\ Becomes(stopPolling(World))
            /\ UNCHANGED fetches
       ELSE /\ InFlight + Len(anims) < MaxPending
            /\ fetches' = [fetches EXCEPT ![this.currentTaskId] = @ + 1]
            /\ UNCHANGED << this, dom, timers, anims >>
    /\ UNCHANGED << posts, nextTaskId, console, handled >>

\* A catch block that gives up on the task instead of only logging.
pollRejectedGivesUp(k) ==
    /\ fetches[k] > 0
    /\ fetches' = [fetches EXCEPT ![k] = @ - 1]
    /\ console' = console \cup {<< PollingErrorLine, NetworkErrorMsg >>}
    /\ Becomes(setLoadingState(showError(stopPolling(World), NetworkErrorMsg), FALSE))
    /\ UNCHANGED << posts, nextTaskId, handled >>

\* The interval callback after its first await, when the fetch of the
\* status of task k rejects (no response): catch (error) logs it.
pollRejected(k) ==
    /\ fetches[k] > 0
    /\ fetches' = [fetches EXCEPT ![k] = @ - 1]
    /\ console' = console \cup {<< PollingErrorLine, NetworkErrorMsg >>}
    /\ UNCHANGED << this, dom, timers, anims, posts, nextTaskId, handled >>

\* The interval callback after its first await, when the body of the
\* response is not JSON: response.json() rejects before response.ok is
\* read, and catch (error) logs it.  ok tells whether the status of the
\* response is 2xx.
pollNotJson(k, ok) ==
    /\ ok \in BOOLEAN
    /\ fetches[k] > 0
    /\ fetches' = [fetches EXCEPT ![k] = @ - 1]
    /\ console' = console \cup {<< PollingErrorLine, JsonErrorMsg >>}
    /\ UNCHANGED << this, dom, timers, anims, posts, nextTaskId, handled >>

\* The status snapshots an ok response carries.  progress is an optional
\* field; these snapshots leave it out (data.progress || 0 is 0), so that
\* the percentage they animate towards is 0.
Snapshots ==
    { [status |-> "downloading", speed |-> 1048576, eta |-> 30],
      [status |-> "completed", filename |-> "abc123.mp4"],
      [status |-> "error", error |-> "Video unavailable"],
      [status |-> "error"] }

Terminal(data) == Has(data, "status") /\ data.status \in {"completed", "error"}

\* if (response.ok) { ... } with a last branch that stops polling on every
\* status that is not terminal.
snapshotReceivedStops(w, data) ==
    LET u == updateProgress(w, data)
    IN  IF Has(data, "status") /\ data.status = "completed"
        THEN setLoadingState(showResult(stopPolling(u), data), FALSE)
        ELSE IF Has(data, "status") /\ data.status = "error"
        THEN setLoadingState(
                showError(stopPolling(u), StrOr(data, "error", DownloadFailedMsg)),
                FALSE)
        ELSE stopPolling(u)

\* if (response.ok) { ... }
snapshotReceived(w, data) ==
    LET u == updateProgress(w, data)
    IN  IF Has(data, "status") /\ data.status = "completed"
        THEN setLoadingState(showResult(stopPolling(u), data), FALSE)
        ELSE IF Has(data, "status") /\ data.status = "error"
        THEN setLoadingState(
                showError(stopPolling(u), StrOr(data, "error", DownloadFailedMsg)),
                FALSE)
        ELSE u

\* The interval callback after its awaits: an ok response with JSON body
\* data to a request for the status of task k.
pollOk(k, data) ==
    /\ fetches[k] > 0
    /\ fetches' = [fetches EXCEPT ![k] = @ - 1]
    /\ Becomes(snapshotReceived(World, data))
    /\ handled' = IF Terminal(data) THEN handled \cup {k} ELSE handled
    /\ UNCHANGED << posts, nextTaskId, console >>

\* else { ... }: task not found or expired
taskExpired(w) == setLoadingState(showError(stopPolling(w), ExpiredMsg), FALSE)

\* A response that is not ok, with a JSON body, to a request for the status
\* of task k.
pollNotOk(k) ==
    /\ fetches[k] > 0
    /\ fetches' = [fetches EXCEPT ![k] = @ - 1]
    /\ Becomes(taskExpired(World))
    /\ handled' = handled \cup {k}
    /\ UNCHANGED << posts, nextTaskId, console >>

\* One animation frame of the browser.
animationFrame ==
    /\ anims # << >>
    /\ \E ns \in FrameTimes(anims) :
          Becomes(RunCallbacks([World EXCEPT !.anims = << >>], anims, ns, 1))
    /\ UNCHANGED << posts, fetches, nextTaskId, console, handled >>

\* ---------------------------------------------------------- the specification
\* The state the constructor leaves, on a page whose three containers are
\* hidden.
Init ==
    /\ this = [ lastPercent |-> 0, currentTaskId |-> Null, pollInterval |-> Null ]
    /\ dom = [ progressContainer |-> "none",
               errorContainer |-> "none",
               resultContainer |-> "none",
               progressFill |-> 0,
               progressStatus |-> PreparingText,
               progressPercent |-> 0,
               progressInfo |-> << >>,
               errorMessage |-> "",
               resultFilename |-> "",
               downloadHref |-> Null,
               submitDisabled |-> FALSE ]
    /\ timers = {}
    /\ anims = << >>
    /\ posts = 0
    /\ fetches = [k \in TaskIds |-> 0]
    /\ nextTaskId = 1
    /\ console = {}
    /\ handled = {}

Next ==
    \/ \E url \in Urls : handleSubmit(url)
    \/ handleSubmitRejected
    \/ handleSubmitNotJson
    \/ \E data \in ErrorBodies : handleSubmitNotOk(data)
    \/ handleSubmitOk
    \/ handleSubmitOkNoTaskId
    \/ \E h \in timers : pollTick(h)
    \/ \E k \in TaskIds : pollRejected(k)
    \/ \E k \in TaskIds, ok \in BOOLEAN : pollNotJson(k, ok)
    \/ \E k \in TaskIds, data \in Snapshots : pollOk(k, data)
    \/ \E k \in TaskIds : pollNotOk(k)
    \/ animationFrame

Spec == Init /\ [][Next]_vars

\* ------------------------------------------------- the progress specification
\* The same controller, with the status snapshots carrying progress values
\* (below 0, inside 0..100, above 100) and the other inputs kept few: one
\* URL, a submission request that is answered with a task or not yet
\* answered, and status requests that are answered ok.
Progresses == { -5, 40, 150 }

ProgressSnapshots ==
    { [status |-> "downloading", progress |-> p] : p \in Progresses }
        \cup { [status |-> "queued"],
               [status |-> "completed", progress |-> ProgressCap] }

ProgressUrls == { "https://youtu.be/abc123" }

ProgressNext ==
    \/ \E url \in ProgressUrls : handleSubmit(url)
    \/ handleSubmitOk
    \/ \E h \in timers : pollTick(h)
    \/ \E k \in TaskIds, data \in ProgressSnapshots : pollOk(k, data)
    \/ animationFrame

ProgressSpec == Init /\ [][ProgressNext]_vars

\* ------------------------------------------ the terminal-answers specification
\* The same controller with a backend that answers every status request,
\* and answers it with a terminal status or with a response that is not ok
\* (with or without a JSON body).  The timer keeps firing while it is live,
\* every response is delivered, and the browser keeps running frames.
TerminalSnapshots == { data \in Snapshots : Terminal(data) }

TerminalAnswer(k) ==
    \/ \E data \in TerminalSnapshots : pollOk(k, data)
    \/ pollNotOk(k)
    \/ pollNotJson(k, FALSE)

SubmitAnswer ==
    \/ handleSubmitOk
    \/ handleSubmitRejected
    \/ \E data \in ErrorBodies : handleSubmitNotOk(data)

TerminalNext ==
    \/ \E url \in Urls : handleSubmit(url)
    \/ SubmitAnswer
    \/ \E h \in timers : pollTick(h)
    \/ \E k \in TaskIds : TerminalAnswer(k)
    \/ animationFrame

TerminalSpec ==
    /\ Init
    /\ [][TerminalNext]_vars
    /\ WF_vars(\E h \in timers : pollTick(h))
    /\ WF_vars(\E k \in TaskIds : TerminalAnswer(k))
    /\ WF_vars(SubmitAnswer)
    /\ WF_vars(animationFrame)

\* --------------------------------------------------------------- properties
\* A response to a request for the status of task k settles, with whatever
\* outcome.
PollResponse(k) ==
    \/ pollRejected(k)
    \/ \E ok \in BOOLEAN : pollNotJson(k, ok)
    \/ \E data \in Snapshots : pollOk(k, data)
    \/ pollNotOk(k)

\* The poll callback switches the page to a terminal view for a response of
\* task k.
TerminalHandling(k) ==
    \/ \E data \in Snapshots : Terminal(data) /\ pollOk(k, data)
    \/ pollNotOk(k)

\* The polling run of task k is over: its timer was cleared by its own
\* terminal snapshot or by a later submission.
RunStopped(k) == this.pollInterval = Null \/ this.currentTaskId # k

\* C1: a status response of a task that is no longer the active one is
\* discarded: it changes neither the view, nor lastPercent, nor the poll
\* timer, nor the state of the submit button.
C1_StaleSnapshotDiscarded ==
    [][ \A k \in TaskIds :
          (this.currentTaskId # k /\ PollResponse(k))
              => UNCHANGED << this, dom, timers, anims >> ]_vars

\* C2: once the polling run of a task was stopped, a response to a request
\* of that run still in flight triggers neither updateProgress nor a
\* terminal view: what is rendered stays as rendered.
C2_NoEffectAfterStop ==
    [][ \A k \in TaskIds :
          (RunStopped(k) /\ PollResponse(k)) => (anims' = anims /\ dom' = dom) ]_vars

\* C3: at most one status request is in flight at any time.
C3_AtMostOneFetchInFlight == InFlight <= 1

\* C4: the terminal handling runs at most once for every task.
C4_TerminalHandlingOnce ==
    [][ \A k \in TaskIds : TerminalHandling(k) => k \notin handled ]_vars

\* C5: a status fetch that fails in transport leaves the timer handle, the
\* active task, the view and the submit button as they are; the live timer
\* stays live, so its next tick fires.
C5_TransientPollErrorKeepsPolling ==
    [][ \A k \in TaskIds :
          pollRejected(k) =>
              /\ UNCHANGED << this, dom, timers >>
              /\ (this.pollInterval \in timers => this'.pollInterval \in timers') ]_vars

\* C5 witness: after a logged poll error the only task there has been went
\* on to its completed view.
C5_Witness ==
    /\ << PollingErrorLine, NetworkErrorMsg >> \in console
    /\ nextTaskId = 2
    /\ this.currentTaskId = 1
    /\ this.pollInterval = Null
    /\ dom.resultContainer = "block"
    /\ ~dom.submitDisabled

\* C6: every response that is not ok to a status request of the active,
\* polled task stops the timer, shows 'Download task expired' and enables
\* the submit button, whatever its body.
C6_NotOkAlwaysExpires ==
    [][ \A k \in TaskIds :
          ( /\ this.currentTaskId = k
            /\ this.pollInterval # Null
            /\ (pollNotOk(k) \/ pollNotJson(k, FALSE)) )
              => /\ this'.pollInterval = Null
                 /\ timers' = {}
                 /\ dom'.errorContainer = "flex"
                 /\ dom'.errorMessage = ExpiredMsg
                 /\ ~dom'.submitDisabled ]_vars

\* C7: an ok response to the submission that carries no task_id ends in the
\* error view, without a running timer and with the submit button enabled.
C7_MissingTaskIdIsSubmissionError ==
    [][ handleSubmitOkNoTaskId
          => /\ dom'.errorContainer = "flex"
             /\ dom'.progressContainer = "none"
             /\ timers' = {}
             /\ ~dom'.submitDisabled ]_vars

\* C8: a submit whose URL the validator rejects issues no request and shows
\* the error view with the validation message.
RejectedUrls == { url \in Urls : ~UrlIsValid[url] }

C8_ValidationBeforeNetwork ==
    [][ \A url \in RejectedUrls :
          handleSubmit(url)
              => /\ posts' = posts
                 /\ fetches' = fetches
                 /\ dom'.errorContainer = "flex"
                 /\ dom'.errorMessage = ValidationMsg ]_vars

\* C8 witness: the validation message is displayed and nothing is in flight.
C8_Witness ==
    /\ dom.errorContainer = "flex"
    /\ dom.errorMessage = ValidationMsg
    /\ posts = 0
    /\ InFlight = 0

\* C9: while a submission is in flight or a poll timer is set, the submit
\* button is disabled.
C9_ButtonDisabledWhileBusy ==
    (posts > 0 \/ this.pollInterval # Null) => dom.submitDisabled

\* C10: at most one interval timer is live, and a live timer is the one
\* pollInterval refers to.
C10_OneLiveTimer ==
    /\ Cardinality(timers) <= 1
    /\ \A h \in timers : h = this.pollInterval

\* C10 witness: startPolling has replaced a timer that was still stored
\* (the new handle differs from the stored one), and only the new one is
\* live.
C10_Witness ==
    /\ this.pollInterval = 2
    /\ timers = {2}

\* C11: stopPolling is idempotent.  Called while no timer is stored it
\* changes nothing; called on its own result it changes nothing; and its
\* result has pollInterval null and no timer live.
C11_StopPollingIdempotent ==
    LET once == stopPolling(World)
    IN  /\ this.pollInterval = Null => once = World
        /\ stopPolling(once) = once
        /\ once.this.pollInterval = Null
        /\ once.timers = {}

\* C11 witness: a terminal snapshot has stopped the polling of the active
\* task, and a second response of that task is on its way: its callback
\* calls stopPolling again, with no timer active.
C11_Witness ==
    /\ this.pollInterval = Null
    /\ timers = {}
    /\ this.currentTaskId # Null
    /\ this.currentTaskId \in handled
    /\ fetches[this.currentTaskId] > 0

\* C12: whatever progress values the snapshots carry, the percentage
\* displayed and the width of the progress bar stay within 0..100.
C12_DisplayedPercentInRange ==
    /\ dom.progressPercent \in 0..ProgressCap
    /\ dom.progressFill \in 0..ProgressCap

\* C13: animations chain.  When a snapshot of the only task there has been
\* (no run was ended yet) is applied while the animation created before it
\* is still waiting for a frame, the animation it creates starts at the
\* target of that one.  The closure created last is the last of the queue.
C13_AnimationsChain ==
    [][ \A k \in TaskIds, data \in ProgressSnapshots :
          ( /\ handled = {}
            /\ this.currentTaskId = k
            /\ anims # << >>
            /\ pollOk(k, data) )
              => anims'[Len(anims')].startPercent = anims[Len(anims)].targetPercent ]_vars

\* C14: a valid submission issues its request with no timer active, no
\* active task and lastPercent 0, and while that request is awaited (no
\* task of the new submission exists yet) lastPercent stays 0.
C14_ResetBeforeSubmission ==
    [][ /\ \A url \in ProgressUrls :
              (handleSubmit(url) /\ posts' = posts + 1)
                  => /\ timers' = {}
                     /\ this'.pollInterval = Null
                     /\ this'.currentTaskId = Null
                     /\ this'.lastPercent = 0
        /\ (posts > 0 /\ this.currentTaskId = Null /\ this.lastPercent = 0)
              => this'.lastPercent = 0 ]_vars

\* C15: when a completed snapshot of task k switches the page to the result
\* view, polling is stopped and the link of the download button, and the
\* request a click on it makes, are those of task k; and whenever the result
\* view is shown no timer is stored.
C15_ResultLinkKeyedByCompletedTask ==
    [][ /\ \A k \in TaskIds, data \in Snapshots :
              (Has(data, "status") /\ data.status = "completed" /\ pollOk(k, data))
                  => /\ dom'.resultContainer = "block"
                     /\ this'.pollInterval = Null
                     /\ timers' = {}
                     /\ dom'.downloadHref = k
                     /\ handleDownload([ this |-> this', dom |-> dom',
                                         timers |-> timers', anims |-> anims' ]) = k
        /\ dom'.resultContainer = "block" => this'.pollInterval = Null ]_vars

\* The submission request fails: in transport, with a body that is not
\* JSON, or with a response that is not ok.
SubmitFailure ==
    \/ handleSubmitRejected
    \/ handleSubmitNotJson
    \/ \E data \in ErrorBodies : handleSubmitNotOk(data)

\* C16: a failed submission request shows the error view (and only it),
\* enables the submit button, starts no timer and issues no status request,
\* and leaves currentTaskId as it is: unset, with no timer live, when the
\* failed request was the only thing going on.
C16_SubmitFailureGoesToFailed ==
    [][ SubmitFailure
          => /\ dom'.errorContainer = "flex"
             /\ dom'.progressContainer = "none"
             /\ dom'.resultContainer = "none"
             /\ ~dom'.submitDisabled
             /\ timers' = timers
             /\ this' = this
             /\ fetches' = fetches
             /\ (this.currentTaskId = Null /\ this.pollInterval = Null)
                   => (this'.currentTaskId = Null /\ timers' = {}) ]_vars

\* C16 witness: the message of a transport failure is displayed, the button
\* is enabled, and there is neither a task nor a timer nor a request.
C16_Witness ==
    /\ dom.errorContainer = "flex"
    /\ dom.errorMessage = NetworkErrorMsg
    /\ ~dom.submitDisabled
    /\ this.currentTaskId = Null
    /\ this.pollInterval = Null
    /\ timers = {}
    /\ posts = 0

\* The controller has left polling with a terminal view.
LeftPolling ==
    /\ this.pollInterval = Null
    /\ timers = {}
    /\ ~dom.submitDisabled
    /\ dom.errorContainer = "flex" \/ dom.resultContainer = "block"

\* C17: when every status request is answered with a terminal status or a
\* response that is not ok, a task that is being polled leads to the
\* controller leaving polling: timer cleared, terminal view shown, submit
\* button enabled.
C17_TerminalAnswersEndPolling ==
    \A k \in TaskIds :
        (this.currentTaskId = k /\ this.pollInterval # Null) ~> LeftPolling

\* C18: a snapshot that is not terminal, applied for the active task,
\* changes nothing but the progress display: the fields of the object, the
\* live timers, the three containers, the error and result texts, the link
\* and the submit button are as before, and the status label is the one of
\* the snapshot.
C18_NonTerminalSnapshotFrame ==
    [][ \A k \in TaskIds, data \in ProgressSnapshots :
          (~Terminal(data) /\ this.currentTaskId = k /\ pollOk(k, data))
              => /\ this' = this
                 /\ timers' = timers
                 /\ [dom' EXCEPT !.progressFill = dom.progressFill,
                                 !.progressStatus = dom.progressStatus,
                                 !.progressPercent = dom.progressPercent,
                                 !.progressInfo = dom.progressInfo] = dom
                 /\ dom'.progressStatus = statusLabel(data)
                 /\ handled' = handled ]_vars

\* C18 witness: a downloading snapshot with progress 40 was applied and
\* animated, and the task is still polled behind the progress view with the
\* button disabled.
C18_Witness ==
    /\ dom.progressStatus = "Downloading..."
    /\ dom.progressFill = 40
    /\ dom.progressPercent = 40
    /\ this.lastPercent = 40
    /\ this.currentTaskId # Null
    /\ this.pollInterval \in timers
    /\ dom.progressContainer = "block"
    /\ dom.submitDisabled

\* The containers that are displayed.
Visible ==
    { c \in {"progressContainer", "errorContainer", "resultContainer"} :
        dom[c] # "none" }

\* C19: at most one of the three containers is displayed, and while a poll
\* timer is live the one displayed is the progress container.
C19_OneViewProgressWhilePolling ==
    /\ Cardinality(Visible) <= 1
    /\ timers # {} => Visible = {"progressContainer"}

\* C20: whenever no animate closure is waiting for a frame, the percentage
\* displayed, lastPercent and the width of the progress bar are the same
\* number.
C20_DisplayAgreesWhenIdle ==
    anims = << >>
        => /\ dom.progressPercent = this.lastPercent
           /\ dom.progressFill = this.lastPercent

====
